---- MODULE Spec2Model ----
(***************************************************************************)
(* A model of the per-channel detection engine of ai_vision_multiprocessing *)
(*                                                                         *)
(*   Detection          src/ray_actors/video_processor.py   (worker loop,  *)
(*                      stability tracker, OCR gate, webhook delivery)     *)
(*   DetectionManager   src/ray_actors/video_processor.py   (registry)     *)
(*   ServerCommand      src/ray_actors/grpc_command_serv.py (directives)   *)
(*   RTSPReader         src/med_service/app.py              (frame source) *)
(*                                                                         *)
(* Three specifications share the module: SpecWorker (one channel's worker *)
(* thread), SpecManager (the registry, its callers and worker threads) and *)
(* SpecReader (the acquisition thread and the readers of get_latest).      *)
(***************************************************************************)
EXTENDS Integers, Sequences, FiniteSets, TLC

VARIABLES
    \* ---- Detection (one channel), video_processor.py:36-54 and the locals
    \* ---- of start_worker, video_processor.py:231-374
    wpc,                  \* position of the worker thread in start_worker
    cap,                  \* the cv2.VideoCapture handle of start_worker
    running,              \* self.running
    stop_event,           \* self._stop_event
    stable_target,        \* self._stable_target (None or bbox/cls_id/count)
    cooldown_remaining,   \* self._cooldown_remaining
    last_roi_hash,        \* self._last_roi_hash
    last_text_signature,  \* self._last_text_signature
    frame_shape,          \* frame.shape[:2] of the frame read this cycle
    best,                 \* best_det of the last frame given to _update_stability
    prev_best,            \* history: best_det of the frame before that one
    is_stable,            \* local is_stable
    roi,                  \* the cropped region examined this cycle (or None)
    ocr_invoked,          \* ocr.process_frame was called this cycle
    ocr_triggered,        \* local ocr_triggered
    ocr_results,          \* local ocr_results (text_count, lot, expiry, text)
    webhook_calls,        \* number of send_webhook calls made this cycle
    last_failed,          \* signature of the latest send_webhook call, if it
                          \* returned False
    sent,                 \* local sent
    raised,               \* the exception that left start_worker, if any
    run_len,              \* history: length of the current run of matching frames
    \* ---- DetectionManager, video_processor.py:384-436, its callers and the
    \* ---- threads it creates
    detections,           \* self.detections: name -> Detection object (0: absent)
    threads,              \* self.threads: name -> Thread object (0: absent)
    created,              \* number of Detection/Thread pairs constructed so far
    thread_state,         \* per Thread object: none / initial / alive / dead
    worker_stop,          \* per Detection object: its _stop_event
    dm_lock,              \* self._lock: "free" or the caller holding it
    cpc,                  \* per caller: its position
    cname,                \* per caller: the channel name of its call in progress
    ev,                   \* the manager call that returned in the last step
    stuck,                \* worker threads inside a call that never returns
    \* ---- RTSPReader, med_service/app.py:70-186, and the callers of get_latest
    rpc,                  \* position of the acquisition thread in _run
    r_cap,                \* self._cap
    r_stop,               \* self._stop
    r_lock,               \* self._lock: "free", "writer" or the reader holding it
    latest,               \* self._latest: None or the buffer of the latest frame
    heap,                 \* pixel buffers: "free" or the content
    pending,              \* local frame of _run: the buffer just retrieved
    drained,              \* local drained of _run
    gpc,                  \* per reader: its position in get_latest
    gimg,                 \* per reader: local img of get_latest (a buffer)
    gret,                 \* per reader: the buffer get_latest returned to it
    r_fault,              \* how _run's last connection attempt failed, if it did
    r_start_error,        \* whether a start() call has raised RuntimeError
    \* ---- ServerCommand.ExecuteCommand, grpc_command_serv.py:65-90, handling a
    \* ---- request of several directives
    req,                  \* per handler: the directives of its request not yet taken up
    request,              \* per handler: of the request it received last, the
                          \* length and which directives miss a required field
    resp                  \* per handler: the response it returned last

workerVars == <<wpc, cap, running, stop_event, stable_target, cooldown_remaining,
                last_roi_hash, last_text_signature, frame_shape, best, prev_best,
                is_stable, roi, ocr_invoked, ocr_triggered, ocr_results, webhook_calls, sent,
                raised, run_len, last_failed>>

managerVars == <<detections, threads, created, thread_state, worker_stop, dm_lock,
                 cpc, cname, ev, stuck>>

readerVars == <<rpc, r_cap, r_stop, r_lock, latest, heap, pending, drained,
                gpc, gimg, gret, r_fault, r_start_error>>

commandVars == <<req, request, resp>>

vars == <<workerVars, managerVars, readerVars, commandVars>>

\* ------------------------------------------------------------------------
\* Optional values (Python's None / a value)
\* ------------------------------------------------------------------------
None == <<>>
Some(x) == <<x>>
IsSome(o) == o # <<>>
Val(o) == o[1]

Max(a, b) == IF a >= b THEN a ELSE b
Min(a, b) == IF a <= b THEN a ELSE b

\* ------------------------------------------------------------------------
\* Program constants of Detection.__init__
\* ------------------------------------------------------------------------
min_stable_frames == 5
\* iou_threshold = 0.6, kept exact as the fraction 6/10
iou_threshold_num == 6
iou_threshold_den == 10
\* min_area_ratio = 0.03, kept exact as the fraction 3/100
min_area_ratio_num == 3
min_area_ratio_den == 100
focus_laplacian_thresh == 120
ocr_cooldown_frames == 30
\* _hamming_distance(roi_hash, last) <= 2 marks a duplicate ROI
duplicate_hamming_max == 2
\* text_sig keeps ocr_results['text'][:64]
text_sig_prefix == 64

\* ------------------------------------------------------------------------
\* Bounds of the model
\* ------------------------------------------------------------------------
\* longest list of detections the Detector returns for one frame
MaxDets == 2
\* the consecutive-match count is followed up to this value
MaxCount == 6

\* ------------------------------------------------------------------------
\* Inputs: frames, detections, regions
\* ------------------------------------------------------------------------
\* bounding boxes <<x1, y1, x2, y2>>; areas 25, 15, 10;
\* IoU(A,C) = 15/25 = 0.6, IoU(C,E) = 10/15, IoU(A,E) = 10/25 = 0.4
BoxA == <<0, 0, 5, 5>>
BoxC == <<0, 0, 5, 3>>
BoxE == <<0, 0, 5, 2>>
Boxes == {BoxA, BoxC, BoxE}
ClassIds == {0, 1}
Confs == {1, 2}
\* frame.shape[:2] = <<h, w>>: 3% of 10x10 is 3, 3% of 20x25 is exactly 15
FrameShapes == {<<10, 10>>, <<20, 25>>}

Dets == [bbox : Boxes, cls_id : ClassIds, conf : Confs]
DetLists == UNION {[1..n -> Dets] : n \in 0..MaxDets}

\* recognised text: two texts that agree on their first 64 characters and
\* differ in the 65th, and a short one
TextA == [i \in 1..(text_sig_prefix + 1) |-> IF i <= text_sig_prefix THEN 1 ELSE 2]
TextB == [i \in 1..(text_sig_prefix + 1) |-> IF i <= text_sig_prefix THEN 1 ELSE 3]
TextC == <<4>>
NoText == [text_count |-> 0, lot |-> "", expiry |-> "", text |-> <<>>]
RoiTexts == {NoText,
             [text_count |-> 1, lot |-> "", expiry |-> "", text |-> TextA],
             [text_count |-> 1, lot |-> "", expiry |-> "", text |-> TextB],
             [text_count |-> 1, lot |-> "L1", expiry |-> "", text |-> TextC]}
\* average hashes of a region; pairwise Hamming distances 0..4
HashVals == {0, 1, 3, 15}
FocusVals == {focus_laplacian_thresh - 1, focus_laplacian_thresh}
\* a cropped region: its Laplacian variance, its average hash, what it reads
Rois == [focus : FocusVals, hash : HashVals, reads : RoiTexts]

\* ------------------------------------------------------------------------
\* Detection: pure helpers
\* ------------------------------------------------------------------------
_bbox_area(bbox) ==
    Max(0, bbox[3] - bbox[1]) * Max(0, bbox[4] - bbox[2])

\* inter_area and union of _iou, before the division
_iou_parts(a, b) ==
    LET inter_x1 == Max(a[1], b[1])
        inter_y1 == Max(a[2], b[2])
        inter_x2 == Min(a[3], b[3])
        inter_y2 == Min(a[4], b[4])
        inter_w == Max(0, inter_x2 - inter_x1)
        inter_h == Max(0, inter_y2 - inter_y1)
        inter_area == inter_w * inter_h
    IN  [inter |-> inter_area,
         union |-> _bbox_area(a) + _bbox_area(b) - inter_area]

\* _iou(a, b) >= self.iou_threshold; _iou is 0.0 when union <= 0
IouAtLeastThreshold(a, b) ==
    LET p == _iou_parts(a, b)
    IN  IF p.union <= 0
        THEN FALSE
        ELSE p.inter * iou_threshold_den >= iou_threshold_num * p.union

\* mutant: the area filter compares with the frame width instead of its area
AreaTooSmall_WidthOnly(bbox, shape) ==
    _bbox_area(bbox) * min_area_ratio_den < min_area_ratio_num * shape[2]

\* self._bbox_area(bbox) < self.min_area_ratio * (w * h)
AreaTooSmall(bbox, shape) ==
    _bbox_area(bbox) * min_area_ratio_den < min_area_ratio_num * (shape[2] * shape[1])

\* max(dets, key=lambda d: d[2]): the first detection of maximal confidence
BestDet(dets) ==
    LET top == CHOOSE c \in {dets[i].conf : i \in 1..Len(dets)} :
                   \A j \in 1..Len(dets) : dets[j].conf <= c
        first == CHOOSE i \in 1..Len(dets) :
                   /\ dets[i].conf = top
                   /\ \A j \in 1..(i - 1) : dets[j].conf # top
    IN  dets[first]

\* mutant: a new object starts at count 0
FreshTarget_CountZero(bbox, cls_id) ==
    [bbox |-> bbox, cls_id |-> cls_id, count |-> 0]

\* the target _update_stability installs for a new object
FreshTarget(bbox, cls_id) ==
    [bbox |-> bbox, cls_id |-> cls_id, count |-> 1]

\* the target _update_stability keeps for a matching detection
MatchedTarget(target, bbox) ==
    [bbox |-> bbox, cls_id |-> target.cls_id, count |-> target.count + 1]

\* mutant: stable one frame late
StableVerdict_OffByOne(target) ==
    target.count > min_stable_frames

\* the return value of _update_stability for a kept or fresh target
StableVerdict(target) ==
    target.count >= min_stable_frames

\* _update_stability(dets, frame_shape) on the given tracker state: the new
\* _stable_target, the new _cooldown_remaining and the returned flag
_update_stability(dets, shape, target, cooldown) ==
    IF Len(dets) = 0
    THEN [target |-> None, cooldown |-> 0, stable |-> FALSE]
    ELSE LET b == BestDet(dets)
         IN  IF AreaTooSmall(b.bbox, shape)
             THEN [target |-> None, cooldown |-> 0, stable |-> FALSE]
             ELSE IF IsSome(target) /\ Val(target).cls_id = b.cls_id
                  THEN IF IouAtLeastThreshold(Val(target).bbox, b.bbox)
                       THEN LET t == MatchedTarget(Val(target), b.bbox)
                            IN  [target |-> Some(t), cooldown |-> cooldown,
                                 stable |-> StableVerdict(t)]
                       ELSE LET t == FreshTarget(b.bbox, b.cls_id)
                            IN  [target |-> Some(t), cooldown |-> 0,
                                 stable |-> StableVerdict(t)]
                  ELSE LET t == FreshTarget(b.bbox, b.cls_id)
                       IN  [target |-> Some(t), cooldown |-> 0,
                            stable |-> StableVerdict(t)]

\* int(bin(a ^ b).count('1'))
RECURSIVE _hamming_distance(_, _)
_hamming_distance(a, b) ==
    IF a = 0 /\ b = 0
    THEN 0
    ELSE (IF a % 2 # b % 2 THEN 1 ELSE 0) + _hamming_distance(a \div 2, b \div 2)

\* is_duplicate_roi of start_worker
IsDuplicateRoi(roi_hash, last) ==
    IsSome(last) /\ _hamming_distance(roi_hash, Val(last)) <= duplicate_hamming_max

\* focus_val >= self.focus_laplacian_thresh and not is_duplicate_roi
ShouldRecognize(r, last) ==
    r.focus >= focus_laplacian_thresh /\ ~IsDuplicateRoi(r.hash, last)

\* mutant: a skipped region starts the full cooldown
PartialCooldown_Full(cooldown) ==
    Max(cooldown, ocr_cooldown_frames)

\* max(self._cooldown_remaining, int(self.ocr_cooldown_frames / 2))
PartialCooldown(cooldown) ==
    Max(cooldown, ocr_cooldown_frames \div 2)

\* the parameters OCRProcessor.process_frame declares, and the keywords the
\* call in start_worker passes besides the positional frame
process_frame_params == {"frame", "rotate_90_clock", "save_frame"}
process_frame_call_keywords == {"rotate_iphone", "save_frame"}

\* Python binds keyword arguments by name: a keyword the callee does not
\* declare raises TypeError before the body of process_frame runs
process_frame_outcomes ==
    IF process_frame_call_keywords \subseteq process_frame_params
    THEN {"returns"}
    ELSE {"TypeError"}

\* f"{lot}|{expiry}|{text[:64]}"
text_sig(res) ==
    <<res.lot, res.expiry, SubSeq(res.text, 1, Min(text_sig_prefix, Len(res.text)))>>

\* the default ocr_results of a cycle
DefaultOcrResults == NoText

\* ------------------------------------------------------------------------
\* Detection.start_worker: the worker thread of one channel
\* ------------------------------------------------------------------------
WorkerInit ==
    /\ wpc = "open"
    /\ cap = "unopened"
    /\ running = FALSE
    /\ stop_event = FALSE
    /\ stable_target = None
    /\ cooldown_remaining = 0
    /\ last_roi_hash = None
    /\ last_text_signature = None
    /\ frame_shape = <<0, 0>>
    /\ best = None
    /\ prev_best = None
    /\ is_stable = FALSE
    /\ roi = None
    /\ ocr_invoked = FALSE
    /\ ocr_triggered = FALSE
    /\ ocr_results = DefaultOcrResults
    /\ webhook_calls = 0
    /\ last_failed = None
    /\ sent = FALSE
    /\ raised = "none"
    /\ run_len = 0

\* the finally block of start_worker: cap.release(); self.running = False
WorkerFinally(exc) ==
    /\ cap' = "released"
    /\ running' = FALSE
    /\ raised' = exc
    /\ wpc' = "done"

\* cv2.VideoCapture(self.video_source), the fallback asset when it is not
\* opened, the early return when the fallback is not opened either
WorkerOpen ==
    /\ wpc = "open"
    /\ \E live_ok \in BOOLEAN, fallback_ok \in BOOLEAN :
          IF live_ok
          THEN cap' = "live" /\ running' = TRUE /\ wpc' = "loop"
          ELSE IF fallback_ok
               THEN cap' = "fallback" /\ running' = TRUE /\ wpc' = "loop"
               ELSE cap' = "unavailable" /\ running' = running /\ wpc' = "done"
    /\ UNCHANGED <<stop_event, stable_target, cooldown_remaining, last_roi_hash,
                   last_text_signature, frame_shape, best, prev_best, is_stable, roi,
                   ocr_invoked, ocr_triggered, ocr_results, webhook_calls, sent,
                   raised, run_len>>
    /\ UNCHANGED last_failed
    /\ UNCHANGED <<managerVars, readerVars, commandVars>>

\* mutant: the loop tests self.running instead of the stop event
LoopEnds_OnRunning(stop, run) ==
    ~run

\* the loop ends when self._stop_event.is_set()
LoopEnds(stop, run) ==
    stop

\* while not self._stop_event.is_set(): ... finally: ...
WorkerLoopTest ==
    /\ wpc = "loop"
    /\ IF LoopEnds(stop_event, running)
       THEN WorkerFinally("none")
       ELSE wpc' = "read" /\ UNCHANGED <<cap, running, raised>>
    /\ UNCHANGED <<stop_event, stable_target, cooldown_remaining, last_roi_hash,
                   last_text_signature, frame_shape, best, prev_best, is_stable, roi,
                   ocr_invoked, ocr_triggered, ocr_results, webhook_calls, sent,
                   run_len>>
    /\ UNCHANGED last_failed
    /\ UNCHANGED <<managerVars, readerVars, commandVars>>

\* ok, frame = cap.read(); the rewind and second read of the fallback asset;
\* time.sleep(0.05); continue when there is still no frame
WorkerRead ==
    /\ wpc = "read"
    /\ \E ok1 \in BOOLEAN, ok2 \in BOOLEAN, shape \in FrameShapes :
          IF ok1 \/ (cap = "fallback" /\ ok2)
          THEN frame_shape' = shape /\ wpc' = "detect"
          ELSE frame_shape' = frame_shape /\ wpc' = "loop"
    /\ UNCHANGED <<cap, running, stop_event, stable_target, cooldown_remaining,
                   last_roi_hash, last_text_signature, best, prev_best, is_stable, roi,
                   ocr_invoked, ocr_triggered, ocr_results, webhook_calls, sent,
                   raised, run_len>>
    /\ UNCHANGED last_failed
    /\ UNCHANGED <<managerVars, readerVars, commandVars>>

\* res = model(frame, ...) raises, and the retry on the CPU raises too: no
\* handler of start_worker catches it, the finally block runs
WorkerDetectRaises ==
    /\ wpc = "detect"
    /\ WorkerFinally("DetectorError")
    /\ UNCHANGED <<stop_event, stable_target, cooldown_remaining, last_roi_hash,
                   last_text_signature, frame_shape, best, prev_best, is_stable, roi,
                   ocr_invoked, ocr_triggered, ocr_results, webhook_calls, sent,
                   run_len>>
    /\ UNCHANGED last_failed
    /\ UNCHANGED <<managerVars, readerVars, commandVars>>

\* if self._cooldown_remaining > 0: self._cooldown_remaining -= 1
DecrementCooldown(cooldown) ==
    IF cooldown > 0 THEN cooldown - 1 ELSE cooldown

\* history: the box area is at least min_area_ratio x frame area
HasAdequateArea(bbox, shape) ==
    (bbox[3] - bbox[1]) * (bbox[4] - bbox[2]) * min_area_ratio_den
        >= min_area_ratio_num * shape[1] * shape[2]

\* history: what the cycle records of the best detection: its box, its
\* class and whether its area is adequate for the frame it came from
BestOf(dets, shape) ==
    IF Len(dets) = 0
    THEN None
    ELSE LET b == BestDet(dets)
         IN  Some([bbox |-> b.bbox, cls_id |-> b.cls_id,
                   adequate |-> HasAdequateArea(b.bbox, shape)])

\* history: the number of consecutive frames, ending with this one, whose
\* best detection has adequate area and, from the second on, the class of
\* the frame before and IoU >= iou_threshold with the box of the frame before
RunLenNext(prev, new, len) ==
    IF ~IsSome(new) \/ ~Val(new).adequate
    THEN 0
    ELSE IF /\ IsSome(prev)
            /\ Val(prev).adequate
            /\ Val(prev).cls_id = Val(new).cls_id
            /\ IouAtLeastThreshold(Val(prev).bbox, Val(new).bbox)
         THEN len + 1
         ELSE 1

\* the Detector returns dets; is_stable = self._update_stability(dets,
\* frame.shape); the cooldown is decremented; do_ocr is computed and the
\* locals of the cycle are initialised
WorkerDetect ==
    /\ wpc = "detect"
    /\ \E dets \in DetLists :
       \E u \in {_update_stability(dets, frame_shape, stable_target,
                                   cooldown_remaining)},
          b \in {BestOf(dets, frame_shape)} :
          LET cd == DecrementCooldown(u.cooldown)
              do_ocr == u.stable /\ cd = 0
          IN  /\ IsSome(u.target) => Val(u.target).count <= MaxCount
              /\ stable_target' = u.target
              /\ cooldown_remaining' = cd
              /\ is_stable' = u.stable
              /\ best' = b
              /\ prev_best' = best
              /\ run_len' = RunLenNext(best, b, run_len)
              /\ wpc' = IF do_ocr /\ IsSome(u.target) THEN "gate" ELSE "deliver"
    /\ roi' = None
    /\ ocr_invoked' = FALSE
    /\ ocr_triggered' = FALSE
    /\ ocr_results' = DefaultOcrResults
    /\ webhook_calls' = 0
    /\ sent' = FALSE
    /\ UNCHANGED <<cap, running, stop_event, last_roi_hash, last_text_signature,
                   frame_shape, raised>>
    /\ UNCHANGED last_failed
    /\ UNCHANGED <<managerVars, readerVars, commandVars>>

\* if do_ocr and self._stable_target: crop the region, measure focus and
\* hash, then either call ocr.process_frame or keep a partial cooldown
WorkerGate ==
    /\ wpc = "gate"
    /\ \E r \in Rois, outcome \in process_frame_outcomes :
          /\ roi' = Some(r)
          /\ IF ShouldRecognize(r, last_roi_hash)
             THEN /\ ocr_invoked' = TRUE
                  /\ IF outcome = "TypeError"
                     THEN /\ WorkerFinally("TypeError")
                          /\ UNCHANGED <<ocr_results, ocr_triggered, last_roi_hash,
                                         cooldown_remaining>>
                     ELSE /\ ocr_results' = r.reads
                          /\ ocr_triggered' = TRUE
                          /\ last_roi_hash' = Some(r.hash)
                          /\ cooldown_remaining' = ocr_cooldown_frames
                          /\ wpc' = "deliver"
                          /\ UNCHANGED <<cap, running, raised>>
             ELSE /\ cooldown_remaining' = PartialCooldown(cooldown_remaining)
                  /\ wpc' = "deliver"
                  /\ UNCHANGED <<ocr_invoked, ocr_results, ocr_triggered,
                                 last_roi_hash, cap, running, raised>>
    /\ UNCHANGED <<stop_event, stable_target, last_text_signature, frame_shape,
                   best, prev_best, is_stable, webhook_calls, sent, run_len>>
    /\ UNCHANGED last_failed
    /\ UNCHANGED <<managerVars, readerVars, commandVars>>

\* ocr_triggered and text_count > 0 and the signature is not the last one sent
ShouldDeliver(triggered, res, last_sig) ==
    /\ triggered
    /\ res.text_count > 0
    /\ last_sig # Some(text_sig(res))

\* mutant: the signature is recorded whatever send_webhook returned
SignatureAfter_Always(ok, last_sig, res) ==
    Some(text_sig(res))

\* if self.webhook.send_webhook(...): self._last_text_signature = text_sig
SignatureAfter(ok, last_sig, res) ==
    IF ok THEN Some(text_sig(res)) ELSE last_sig

\* save_outputs, then the webhook: send_webhook is called when ShouldDeliver
\* holds and the signature is recorded when it returns True; time.sleep(0.01)
WorkerDeliver ==
    /\ wpc = "deliver"
    /\ \E webhook_ok \in BOOLEAN :
          IF ShouldDeliver(ocr_triggered, ocr_results, last_text_signature)
          THEN /\ webhook_calls' = webhook_calls + 1
               /\ sent' = webhook_ok
               /\ last_text_signature' =
                     SignatureAfter(webhook_ok, last_text_signature, ocr_results)
               /\ last_failed' = IF webhook_ok THEN None
                                 ELSE Some(text_sig(ocr_results))
          ELSE UNCHANGED <<webhook_calls, sent, last_text_signature, last_failed>>
    /\ wpc' = "loop"
    /\ UNCHANGED <<cap, running, stop_event, stable_target, cooldown_remaining,
                   last_roi_hash, frame_shape, best, prev_best, is_stable, roi, ocr_invoked,
                   ocr_triggered, ocr_results, raised, run_len>>
    /\ UNCHANGED <<managerVars, readerVars, commandVars>>

\* Detection.stop_worker, called from another thread
stop_worker ==
    /\ ~stop_event
    /\ stop_event' = TRUE
    /\ UNCHANGED <<wpc, cap, running, stable_target, cooldown_remaining,
                   last_roi_hash, last_text_signature, frame_shape, best, prev_best,
                   is_stable, roi, ocr_invoked, ocr_triggered, ocr_results,
                   webhook_calls, sent, raised, run_len>>
    /\ UNCHANGED last_failed
    /\ UNCHANGED <<managerVars, readerVars, commandVars>>

WorkerNext ==
    \/ WorkerOpen
    \/ WorkerLoopTest
    \/ WorkerRead
    \/ WorkerDetectRaises
    \/ WorkerDetect
    \/ WorkerGate
    \/ WorkerDeliver
    \/ stop_worker

\* one step of the worker thread
WorkerStep ==
    \/ WorkerOpen
    \/ WorkerLoopTest
    \/ WorkerRead
    \/ WorkerDetectRaises
    \/ WorkerDetect
    \/ WorkerGate
    \/ WorkerDeliver

\* Scheduling: the worker thread keeps running; its transport, Detector,
\* Recognizer and Dispatcher calls and its sleeps return
WorkerFairness ==
    WF_vars(WorkerStep)


\* ------------------------------------------------------------------------
\* Claims about the stability tracker and the recognition gate (SpecWorker)
\* ------------------------------------------------------------------------

\* C1: starting from no StableTarget, in a run of consecutive frames whose
\* best detection keeps its class, has adequate area and IoU >= iou_threshold
\* with the box of the frame before, _update_stability returns False on
\* frames 1..min_stable_frames-1 of the run and True on every frame from the
\* min_stable_frames-th on.
C1_StableExactlyAtMinFrames ==
    is_stable <=> run_len >= min_stable_frames

\* the fifth frame of a run has just been reported stable
C1_Witness ==
    /\ wpc = "gate"
    /\ run_len = min_stable_frames
    /\ is_stable

\* C2 as stated: when ocr.process_frame is called in a cycle, the cooldown
\* had reached 0 in that cycle and is the full ocr_cooldown_frames after the
\* call, whether the recognizer succeeded or not.
C2_FullCooldownAfterRecognition ==
    [][(~ocr_invoked /\ ocr_invoked') =>
          (cooldown_remaining = 0 /\ cooldown_remaining' = ocr_cooldown_frames)]_vars

\* C3 as stated: in the gate of a cycle (stable target, cooldown 0), a region
\* in focus whose hash is further than the duplicate distance from the last
\* recorded hash (or when none is recorded) is recognised once, the hash
\* being recorded; a region within the duplicate distance is not recognised.
C3_RecognitionFiresOnce ==
    [][(wpc = "gate" /\ wpc' # "gate") =>
          LET r == Val(roi')
              dup == /\ IsSome(last_roi_hash)
                     /\ _hamming_distance(r.hash, Val(last_roi_hash))
                            <= duplicate_hamming_max
          IN  /\ (r.focus >= focus_laplacian_thresh /\ ~dup) =>
                     (ocr_triggered' /\ last_roi_hash' = Some(r.hash))
              /\ dup => (~ocr_invoked' /\ ~ocr_triggered')]_vars

\* C4 as stated: at the end of a cycle the Dispatcher has been called once
\* when recognition ran on a region that reads non-empty text whose
\* signature differs from the last one delivered, and not at all otherwise.
C4_DispatcherCalledExactlyWhen ==
    (wpc \in {"loop", "done"} /\ IsSome(roi)) =>
        LET reads == Val(roi).reads
            fresh == last_text_signature # Some(text_sig(reads)) \/ sent
        IN  webhook_calls =
                IF ocr_invoked /\ reads.text_count > 0 /\ fresh THEN 1 ELSE 0

\* C9 as stated: a best detection of another class, or of IoU below the
\* threshold with the target box, replaces an existing target by a fresh one
\* of count 1 and resets the cooldown to 0.
C9_Original ==
    [][(/\ wpc = "detect" /\ wpc' \in {"gate", "deliver"}
        /\ IsSome(stable_target)
        /\ IsSome(best')
        /\ \/ Val(best').cls_id # Val(stable_target).cls_id
           \/ ~IouAtLeastThreshold(Val(stable_target).bbox, Val(best').bbox))
       => (/\ stable_target' = Some([bbox |-> Val(best').bbox,
                                     cls_id |-> Val(best').cls_id,
                                     count |-> 1])
           /\ cooldown_remaining' = 0)]_vars

\* C9 amended: a best detection of adequate area and of another class, or of
\* IoU below the threshold with the target box, replaces an existing target
\* by a fresh one of count 1 and resets the cooldown to 0; and whenever a
\* target exists its count is at least 1.
C9_FreshTargetCountsOne ==
    /\ [](IsSome(stable_target) => Val(stable_target).count >= 1)
    /\ [][(/\ wpc = "detect" /\ wpc' \in {"gate", "deliver"}
           /\ IsSome(stable_target)
           /\ IsSome(best')
           /\ Val(best').adequate
           /\ \/ Val(best').cls_id # Val(stable_target).cls_id
              \/ ~IouAtLeastThreshold(Val(stable_target).bbox, Val(best').bbox))
          => (/\ stable_target' = Some([bbox |-> Val(best').bbox,
                                        cls_id |-> Val(best').cls_id,
                                        count |-> 1])
              /\ cooldown_remaining' = 0)]_vars

\* C9 witness: a target of class 0 has just been replaced by a detection of
\* class 1 and adequate area on the same box
C9_Witness ==
    /\ wpc = "deliver"
    /\ IsSome(prev_best)
    /\ Val(prev_best).adequate
    /\ Val(prev_best).cls_id = 0
    /\ IsSome(best)
    /\ Val(best).adequate
    /\ Val(best).cls_id = 1
    /\ Val(best).bbox = Val(prev_best).bbox
    /\ run_len = 1
    /\ stable_target = Some([bbox |-> Val(best).bbox, cls_id |-> 1, count |-> 1])
    /\ cooldown_remaining = 0

\* C10: after a frame with no detections, or whose best detection has an
\* area below min_area_ratio x frame area, there is no StableTarget, the
\* cooldown is 0 and the frame is reported not stable, for both frame sizes.
C10_SmallOrNoDetectionResets ==
    (~IsSome(best) \/ ~Val(best).adequate) =>
        (/\ stable_target = None
         /\ cooldown_remaining = 0
         /\ ~is_stable)

\* a tracked object (adequate in the frame before) has just been followed
\* by a best detection too small for the large frame
C10_Witness ==
    /\ wpc = "deliver"
    /\ IsSome(prev_best)
    /\ Val(prev_best).adequate
    /\ frame_shape = <<20, 25>>
    /\ IsSome(best)
    /\ Val(best).bbox = BoxE
    /\ ~Val(best).adequate
    /\ stable_target = None
    /\ run_len = 0

\* C12 as stated: an exception raised by the Detector or the Recognizer in a
\* cycle is caught in that cycle and the loop goes on with the next frame: the
\* worker never ends with such an exception.
C12_ExceptionsCaughtInCycle ==
    raised \in {"DetectorError", "TypeError"} => (wpc # "done" /\ running)

\* ------------------------------------------------------------------------
\* DetectionManager, its callers (direct calls and the directives of
\* ServerCommand.ExecuteCommand) and the threads it creates
\* ------------------------------------------------------------------------
\* most Detection/Thread pairs constructed in one run
MaxWorkers == 2

Names == {"cam1", "cam2"}
\* threads calling the manager: the gRPC pool handles requests concurrently
Callers == {"h1", "h2"}
Workers == 1..MaxWorkers

NoEvent == [op |-> "none", via |-> "none", name |-> "none", result |-> "none", w |-> 0]
Event(op, via, n, result, w) ==
    [op |-> op, via |-> via, name |-> n, result |-> result, w |-> w]

ManagerInit ==
    /\ detections = [n \in Names |-> 0]
    /\ threads = [n \in Names |-> 0]
    /\ created = 0
    /\ thread_state = [w \in Workers |-> "none"]
    /\ worker_stop = [w \in Workers |-> FALSE]
    /\ dm_lock = "free"
    /\ cpc = [c \in Callers |-> "idle"]
    /\ cname = [c \in Callers |-> "none"]
    /\ ev = NoEvent
    /\ stuck = {}

\* name in self.detections and name in self.threads
KnownName(n) ==
    detections[n] # 0 /\ threads[n] # 0

\* mutant: add registers the new pair whether or not the name exists
AddRegisters_Always(n) ==
    TRUE

\* detection_params.name not in self.detections
AddRegisters(n) ==
    detections[n] = 0

\* mutant: the failure path returns True
FailureResult_True ==
    "True"

\* the return False that ends add, start, stop and remove
FailureResult ==
    "False"

\* mutant: join does not wait for a running thread
JoinReturns_NoWait(w) ==
    thread_state[w] \in {"alive", "dead"}

\* threading.Thread.join() returns once the thread has ended
JoinReturns(w) ==
    thread_state[w] = "dead"

\* threading.Thread.join() on a thread that was never started raises
\* RuntimeError("cannot join thread before it is started")
JoinRaises(w) ==
    thread_state[w] = "initial"

\* DetectionManager.add under the lock, called by caller c through via; next
\* is the caller's position after a True result
Add(c, via, n, next) ==
    /\ cpc[c] = "idle"
    /\ dm_lock = "free"
    /\ IF AddRegisters(n)
       THEN /\ created < MaxWorkers
            /\ created' = created + 1
            /\ detections' = [detections EXCEPT ![n] = created + 1]
            /\ threads' = [threads EXCEPT ![n] = created + 1]
            /\ thread_state' = [thread_state EXCEPT ![created + 1] = "initial"]
            /\ ev' = Event("add", via, n, "True", created + 1)
            /\ cpc' = [cpc EXCEPT ![c] = next]
            /\ cname' = [cname EXCEPT ![c] = IF next = "idle" THEN "none" ELSE n]
       ELSE /\ ev' = Event("add", via, n, FailureResult, 0)
            /\ UNCHANGED <<created, detections, threads, thread_state, cpc, cname>>
    /\ UNCHANGED <<worker_stop, dm_lock>>
    /\ UNCHANGED stuck
    /\ UNCHANGED <<workerVars, readerVars>>

\* DetectionManager.start under the lock; Thread.start() raises RuntimeError
\* on a thread that was started before
Start(c, via, n, from) ==
    /\ cpc[c] = from
    /\ dm_lock = "free"
    /\ IF KnownName(n)
       THEN IF thread_state[threads[n]] = "initial"
            THEN /\ thread_state' = [thread_state EXCEPT ![threads[n]] = "alive"]
                 /\ ev' = Event("start", via, n, "True", threads[n])
            ELSE /\ ev' = Event("start", via, n, "RuntimeError", threads[n])
                 /\ UNCHANGED thread_state
       ELSE /\ ev' = Event("start", via, n, FailureResult, 0)
            /\ UNCHANGED thread_state
    /\ cpc' = [cpc EXCEPT ![c] = "idle"]
    /\ cname' = [cname EXCEPT ![c] = "none"]
    /\ UNCHANGED <<detections, threads, created, worker_stop, dm_lock>>
    /\ UNCHANGED stuck
    /\ UNCHANGED <<workerVars, readerVars>>

\* DetectionManager.stop up to the join: the lock is taken, stop_worker sets
\* the event and returns True, and the caller enters join holding the lock
StopBegin(c, via, n, joining) ==
    /\ cpc[c] = "idle"
    /\ dm_lock = "free"
    /\ IF KnownName(n)
       THEN /\ worker_stop' = [worker_stop EXCEPT ![detections[n]] = TRUE]
            /\ dm_lock' = c
            /\ cpc' = [cpc EXCEPT ![c] = joining]
            /\ cname' = [cname EXCEPT ![c] = n]
            /\ ev' = NoEvent
       ELSE /\ ev' = Event("stop", via, n, FailureResult, 0)
            /\ UNCHANGED <<worker_stop, dm_lock, cpc, cname>>
    /\ UNCHANGED <<detections, threads, created, thread_state>>
    /\ UNCHANGED stuck
    /\ UNCHANGED <<workerVars, readerVars>>

\* DetectionManager.stop from the join on: join returns and stop returns
\* True, or join raises; either way the with block releases the lock
StopJoin(c, via, joining, next) ==
    /\ cpc[c] = joining
    /\ dm_lock = c
    /\ LET n == cname[c]
           w == threads[n]
       IN  \/ /\ JoinReturns(w)
              /\ ev' = Event("stop", via, n, "True", w)
              /\ cpc' = [cpc EXCEPT ![c] = next]
              /\ cname' = [cname EXCEPT ![c] = IF next = "idle" THEN "none" ELSE n]
           \/ /\ JoinRaises(w)
              /\ ev' = Event("stop", via, n, "RuntimeError", w)
              /\ cpc' = [cpc EXCEPT ![c] = "idle"]
              /\ cname' = [cname EXCEPT ![c] = "none"]
    /\ dm_lock' = "free"
    /\ UNCHANGED <<detections, threads, created, thread_state, worker_stop>>
    /\ UNCHANGED stuck
    /\ UNCHANGED <<workerVars, readerVars>>

\* DetectionManager.remove under the lock
Remove(c, via, n, from) ==
    /\ cpc[c] = from
    /\ dm_lock = "free"
    /\ IF KnownName(n)
       THEN /\ detections' = [detections EXCEPT ![n] = 0]
            /\ threads' = [threads EXCEPT ![n] = 0]
            /\ ev' = Event("remove", via, n, "True", threads[n])
       ELSE /\ ev' = Event("remove", via, n, FailureResult, 0)
            /\ UNCHANGED <<detections, threads>>
    /\ cpc' = [cpc EXCEPT ![c] = "idle"]
    /\ cname' = [cname EXCEPT ![c] = "none"]
    /\ UNCHANGED <<created, thread_state, worker_stop, dm_lock>>
    /\ UNCHANGED stuck
    /\ UNCHANGED <<workerVars, readerVars>>

\* direct calls of the manager's methods
ApiAdd(c, n) == Add(c, "api", n, "idle") /\ UNCHANGED commandVars
ApiStart(c, n) == Start(c, "api", n, "idle") /\ UNCHANGED commandVars
ApiStopBegin(c, n) == StopBegin(c, "api", n, "join") /\ UNCHANGED commandVars
ApiStopJoin(c) == StopJoin(c, "api", "join", "idle") /\ UNCHANGED commandVars
ApiRemove(c, n) == Remove(c, "api", n, "idle") /\ UNCHANGED commandVars

\* ExecuteCommand, a START directive: if self.dm.add(dp): if self.dm.start(name)
GrpcStartAdd(c, n) == Add(c, "grpc", n, "grpc_start") /\ UNCHANGED commandVars
GrpcStartStart(c) == Start(c, "grpc", cname[c], "grpc_start") /\ UNCHANGED commandVars

\* ExecuteCommand, a STOP directive: if self.dm.stop(name): if self.dm.remove(name)
GrpcStopStop(c, n) == StopBegin(c, "grpc", n, "grpc_join") /\ UNCHANGED commandVars
GrpcStopJoin(c) == StopJoin(c, "grpc", "grpc_join", "grpc_remove") /\ UNCHANGED commandVars
GrpcStopRemove(c) == Remove(c, "grpc", cname[c], "grpc_remove") /\ UNCHANGED commandVars

\* a started worker thread leaves its loop because its stop event is set
ThreadExits(w) ==
    /\ thread_state[w] = "alive"
    /\ w \notin stuck
    /\ worker_stop[w]
    /\ thread_state' = [thread_state EXCEPT ![w] = "dead"]
    /\ ev' = NoEvent
    /\ UNCHANGED <<detections, threads, created, worker_stop, dm_lock, cpc, cname,
                   stuck>>
    /\ UNCHANGED <<workerVars, readerVars, commandVars>>

\* a started worker thread ends by itself: start_worker returns because no
\* source can be opened, or an exception leaves it
ThreadFails(w) ==
    /\ thread_state[w] = "alive"
    /\ w \notin stuck
    /\ thread_state' = [thread_state EXCEPT ![w] = "dead"]
    /\ ev' = NoEvent
    /\ UNCHANGED <<detections, threads, created, worker_stop, dm_lock, cpc, cname,
                   stuck>>
    /\ UNCHANGED <<workerVars, readerVars, commandVars>>

\* a started worker thread enters a Detector or Recognizer call that never
\* returns: the calls of start_worker carry no timeout
ThreadWedges(w) ==
    /\ thread_state[w] = "alive"
    /\ w \notin stuck
    /\ stuck' = stuck \cup {w}
    /\ ev' = NoEvent
    /\ UNCHANGED <<detections, threads, created, thread_state, worker_stop,
                   dm_lock, cpc, cname>>
    /\ UNCHANGED <<workerVars, readerVars, commandVars>>

ManagerNext ==
    \/ \E c \in Callers, n \in Names : ApiAdd(c, n)
    \/ \E c \in Callers, n \in Names : ApiStart(c, n)
    \/ \E c \in Callers, n \in Names : ApiStopBegin(c, n)
    \/ \E c \in Callers : ApiStopJoin(c)
    \/ \E c \in Callers, n \in Names : ApiRemove(c, n)
    \/ \E c \in Callers, n \in Names : GrpcStartAdd(c, n)
    \/ \E c \in Callers : GrpcStartStart(c)
    \/ \E c \in Callers, n \in Names : GrpcStopStop(c, n)
    \/ \E c \in Callers : GrpcStopJoin(c)
    \/ \E c \in Callers : GrpcStopRemove(c)
    \/ \E w \in Workers : ThreadExits(w)
    \/ \E w \in Workers : ThreadFails(w)
    \/ \E w \in Workers : ThreadWedges(w)

\* C25 as stated: a running worker whose live source gives no frame does not
\* idle indefinitely: whenever it is about to read the live source, it later
\* has a frame to work on, or reads from the fallback asset, or has ended.
C25_FallbackWheneverLiveUnavailable ==
    (wpc = "read" /\ cap = "live")
        ~> (wpc \in {"detect", "done"} \/ cap = "fallback")

\* C26: shutdown is cooperative. Setting the stop flag changes nothing else:
\* the worker's position, source and running flag are as before, so a call in
\* progress goes on. With the flag set the loop's test starts no new
\* iteration but goes to the finally block; the cycle in progress runs to its
\* end. Once the flag is set the thread eventually ends, also when its reads
\* keep failing, and a thread that has ended has running = False and holds no
\* open source.
C26_CooperativeShutdown ==
    /\ [][stop_event' # stop_event
             => (wpc' = wpc /\ cap' = cap /\ running' = running)]_vars
    /\ [][(stop_event /\ wpc = "loop" /\ wpc' # wpc)
             => (wpc' = "done" /\ cap' = "released" /\ ~running')]_vars
    /\ [][(wpc \in {"detect", "gate", "deliver"} /\ wpc' # wpc)
             => (wpc' \in {"gate", "deliver", "loop"} \/ raised' # "none")]_vars
    /\ stop_event ~> (wpc = "done")
    /\ [](wpc = "done" => (~running /\ cap \in {"released", "unavailable"}))

\* C26 witness: a worker that had a stable target was stopped by its flag:
\* it has ended without an exception, its source released, running = False.
C26_Witness ==
    /\ stop_event
    /\ wpc = "done"
    /\ raised = "none"
    /\ cap = "released"
    /\ ~running
    /\ IsSome(stable_target)

\* the region of this cycle is out of focus or a duplicate of the region
\* recognised last
SkippedRegion(r, last) ==
    \/ r.focus < focus_laplacian_thresh
    \/ (last # None /\ _hamming_distance(r.hash, Val(last)) <= duplicate_hamming_max)

C5_StopReturnsAfterThreadExited ==
    (ev.op = "stop" /\ ev.result = "True")
        => (worker_stop[ev.w] /\ thread_state[ev.w] = "dead")

\* C5 witness: a STOP directive's stop has just returned True for a thread
\* that had been started, and the handler is about to remove the channel.
C5_Witness ==
    /\ ev.op = "stop" /\ ev.result = "True" /\ ev.via = "grpc"
    /\ thread_state[ev.w] = "dead"
    /\ worker_stop[ev.w]
    /\ \E c \in Callers : cpc[c] = "grpc_remove" /\ cname[c] = ev.name

\* C6: add with a name that is already registered returns False and leaves the
\* registry, the existing worker object, its thread and its stop event as they
\* were; no caller moves on to start a thread.
C6_DuplicateAddChangesNothing ==
    [][(ev'.op = "add" /\ detections[ev'.name] # 0)
          => /\ ev'.result = "False"
             /\ UNCHANGED <<detections, threads, created, thread_state, worker_stop,
                            dm_lock, cpc, cname>>]_vars

\* C6 witness: a START directive's add has just returned False for a channel
\* whose thread is running, and no handler is about to start a thread.
C6_Witness ==
    /\ ev.op = "add" /\ ev.result = "False" /\ ev.via = "grpc"
    /\ detections[ev.name] # 0
    /\ thread_state[threads[ev.name]] = "alive"
    /\ \A c \in Callers : cpc[c] # "grpc_start"

\* C7: start, stop and remove with a name that is not registered return False
\* and change nothing: no thread is created, started or signalled, no caller
\* enters a join and the registry is unchanged.
C7_UnknownNameChangesNothing ==
    [][(ev'.op \in {"start", "stop", "remove"} /\ detections[ev'.name] = 0)
          => /\ ev'.result = "False"
             /\ UNCHANGED <<detections, threads, created, thread_state, worker_stop,
                            dm_lock>>
             /\ \A c \in Callers : cpc'[c] # cpc[c] => cpc'[c] = "idle"]_vars

\* C7 witness: a STOP directive for a channel that was never added has just
\* returned False; nothing was ever constructed.
C7_Witness ==
    /\ ev.op = "stop" /\ ev.result = "False" /\ ev.via = "grpc"
    /\ created = 0
    /\ \A c \in Callers : cpc[c] = "idle"
    /\ dm_lock = "free"

\* C18 as stated: no accepted call makes a channel skip a lifecycle state; in
\* particular a channel whose thread is running does not become removed:
\* its registry entry is deleted only when its thread is not alive.
C18_NoLifecycleStateSkipped ==
    [][\A n \in Names :
          (detections[n] # 0 /\ detections'[n] = 0)
             => thread_state[threads[n]] # "alive"]_vars

\* C19 as stated: misuse of the lifecycle is answered with False: no call of
\* the manager ends in an exception, and remove on a channel whose thread is
\* running returns False.
C19_MisuseReturnsFalse ==
    /\ [](ev.result # "RuntimeError")
    /\ [][\A n \in Names :
             (ev'.op = "remove" /\ ev'.name = n /\ KnownName(n)
                  /\ thread_state[threads[n]] = "alive" /\ cpc' # cpc)
                => ev'.result = "False"]_vars

\* C23 as stated: the manager lock is held for bookkeeping only: no caller
\* holds it while it waits for a worker thread that is still running its
\* loop of transport, Detector and Recognizer calls.
C23_LockHeldOnlyForBookkeeping ==
    \A c \in Callers :
        dm_lock = c => thread_state[threads[cname[c]]] # "alive"

\* C24 as stated: a call that never returns in one channel's worker stalls
\* that channel only: the manager lock, which every add, start, stop and
\* remove of every channel needs, is not held by a caller waiting for the
\* stuck worker.
C24_StuckWorkerStallsOnlyItsChannel ==
    \A w \in stuck : \A c \in Callers :
        dm_lock = c => threads[cname[c]] # w

\* ------------------------------------------------------------------------
\* The manager driven through the command surface only: concurrent handlers
\* of ExecuteCommand, each taking START and STOP directives
\* ------------------------------------------------------------------------
GrpcNext ==
    \/ \E c \in Callers, n \in Names : GrpcStartAdd(c, n)
    \/ \E c \in Callers : GrpcStartStart(c)
    \/ \E c \in Callers, n \in Names : GrpcStopStop(c, n)
    \/ \E c \in Callers : GrpcStopJoin(c)
    \/ \E c \in Callers : GrpcStopRemove(c)
    \/ \E w \in Workers : ThreadExits(w)
    \/ \E w \in Workers : ThreadFails(w)

\* C20 as stated: under every interleaving of START and STOP requests no
\* running worker thread is without a registry entry.
C20_NoDanglingThread ==
    \A w \in Workers :
        thread_state[w] = "alive" => \E n \in Names : threads[n] = w

\* C28 as stated: under every interleaving of START and STOP requests no
\* handler is inside stop's join on a thread that was created by add and not
\* yet started.
C28_StopNeverJoinsUnstartedThread ==
    \A c \in Callers :
        cpc[c] = "grpc_join" => thread_state[threads[cname[c]]] # "initial"

\* ------------------------------------------------------------------------
\* RTSPReader: the acquisition thread (_run) and the callers of get_latest
\* ------------------------------------------------------------------------
\* MAX_DRAIN of _run
MAX_DRAIN == 8
\* number of pixel buffers the process has room for (decoded frames and copies)
MaxBufs == 4

Readers == {"r1", "r2"}
Bufs == 1..MaxBufs
\* what the camera may deliver as a frame
FrameContents == {"frame"}
\* content of a buffer its holder has overwritten
Scribbled == "scribbled"

LatestBuf == IF IsSome(latest) THEN {Val(latest)} ELSE {}

\* buffers something still refers to: the published frame, _run's local
\* frame, get_latest's local img and the frames the callers hold
RefsOf(lat, frame, imgs, held) ==
    ((IF IsSome(lat) THEN {Val(lat)} ELSE {}) \cup {frame}
        \cup {imgs[r] : r \in Readers} \cup {held[r] : r \in Readers}) \ {0}

ReferencedBufs == RefsOf(latest, pending, gimg, gret)

\* buffers a new array may be placed in
FreeBufs == Bufs \ ReferencedBufs

\* where a new array is placed
NewBuf == CHOOSE b \in FreeBufs : \A c \in FreeBufs : b <= c

\* an array is freed when the last reference to it is dropped
Collect(h, refs) == [b \in Bufs |-> IF b \in refs THEN h[b] ELSE "free"]

ReaderInit ==
    /\ rpc = "not_started"
    /\ r_cap = "None"
    /\ r_stop = FALSE
    /\ r_lock = "free"
    /\ latest = None
    /\ heap = [b \in Bufs |-> "free"]
    /\ pending = 0
    /\ drained = 0
    /\ gpc = [r \in Readers |-> "idle"]
    /\ gimg = [r \in Readers |-> 0]
    /\ gret = [r \in Readers |-> 0]
    /\ r_fault = "none"
    /\ r_start_error = FALSE

\* mutant: _run has no except clause, an exception ends the thread
ExceptHandler_Propagates ==
    "exited"

\* except Exception: pass -- control goes on to the finally block
ExceptHandler ==
    "finally"

\* mutant: the sleep after publishing is inside the with block
WithLockExit_AfterSleep ==
    "writer"

\* leaving `with self._lock:` right after the assignment releases the mutex
WithLockExit ==
    "free"

\* threading.Thread.is_alive(): started and not yet ended
ThreadIsAlive ==
    rpc \notin {"not_started", "exited"}

\* start(): if not self._thread.is_alive(): self._thread.start()
\* On a running thread nothing happens. On a thread that has ended is_alive()
\* is False as well, and Thread.start raises RuntimeError("threads can only
\* be started once"), which start() lets through.
ReaderStart ==
    /\ IF ThreadIsAlive
       THEN UNCHANGED <<rpc, r_start_error>>
       ELSE IF rpc = "not_started"
            THEN rpc' = "outer" /\ UNCHANGED r_start_error
            ELSE r_start_error' = TRUE /\ UNCHANGED rpc
    /\ UNCHANGED <<r_cap, r_stop, r_lock, latest, heap, pending, drained,
                   gpc, gimg, gret, r_fault>>
    /\ UNCHANGED <<workerVars, managerVars, commandVars>>

\* stop(): self._stop.set(); self._cap.release() when there is a handle
ReaderStop ==
    /\ r_stop' = TRUE
    /\ r_cap' = IF r_cap = "None" THEN "None" ELSE "released"
    /\ UNCHANGED <<rpc, r_lock, latest, heap, pending, drained, gpc, gimg, gret>>
    /\ UNCHANGED <<r_fault, r_start_error>>
    /\ UNCHANGED <<workerVars, managerVars, commandVars>>

\* while not self._stop.is_set(): of the outer loop
RunOuterTest ==
    /\ rpc = "outer"
    /\ rpc' = IF r_stop THEN "exited" ELSE "open"
    /\ UNCHANGED <<r_cap, r_stop, r_lock, latest, heap, pending, drained,
                   gpc, gimg, gret>>
    /\ UNCHANGED <<r_fault, r_start_error>>
    /\ UNCHANGED <<workerVars, managerVars, commandVars>>

\* if not self._open(): time.sleep(0.5); continue -- the finally block runs;
\* an exception of _open is swallowed by except Exception and the finally
\* block runs as well
RunOpen ==
    /\ rpc = "open"
    /\ \E outcome \in {"opened", "not_opened", "raises"} :
          /\ r_cap' = CASE outcome = "opened" -> "opened"
                        [] outcome = "not_opened" -> "unopened"
                        [] OTHER -> r_cap
          /\ rpc' = CASE outcome = "opened" -> "inner"
                      [] outcome = "not_opened" -> "finally"
                      [] OTHER -> ExceptHandler
          /\ r_fault' = CASE outcome = "opened" -> "none"
                          [] outcome = "not_opened" -> "open_failed"
                          [] OTHER -> "exception"
    /\ UNCHANGED <<r_stop, r_lock, latest, heap, pending, drained, gpc, gimg,
                   gret>>
    /\ UNCHANGED r_start_error
    /\ UNCHANGED <<workerVars, managerVars, commandVars>>

\* mutant: the inner loop is `while True:` and ends only on a missing handle
InnerLoopEnds_NoStopTest(stop, handle) ==
    handle = "None"

\* the inner loop ends when the stop event is set or self._cap is None
InnerLoopEnds(stop, handle) ==
    stop \/ handle = "None"

\* while not self._stop.is_set(): cap = self._cap; if cap is None: break;
\* drained = 0
RunInnerTest ==
    /\ rpc = "inner"
    /\ IF InnerLoopEnds(r_stop, r_cap)
       THEN rpc' = "finally" /\ UNCHANGED drained
       ELSE rpc' = "drain" /\ drained' = 0
    /\ UNCHANGED <<r_cap, r_stop, r_lock, latest, heap, pending, gpc, gimg, gret>>
    /\ UNCHANGED <<r_fault, r_start_error>>
    /\ UNCHANGED <<workerVars, managerVars, commandVars>>

\* while drained < MAX_DRAIN: leaving it returns to the inner loop's test
RunDrainTest ==
    /\ rpc = "drain"
    /\ rpc' = IF drained < MAX_DRAIN THEN "grab" ELSE "inner"
    /\ UNCHANGED <<r_cap, r_stop, r_lock, latest, heap, pending, drained,
                   gpc, gimg, gret>>
    /\ UNCHANGED <<r_fault, r_start_error>>
    /\ UNCHANGED <<workerVars, managerVars, commandVars>>

\* ok = cap.grab(): a failed grab breaks out of the drain loop only; a
\* released handle grabs nothing; an exception goes to the finally block
RunGrab ==
    /\ rpc = "grab"
    /\ \E outcome \in {"ok", "fail", "raises"} :
          /\ r_cap = "released" => outcome = "fail"
          /\ rpc' = CASE outcome = "ok" -> "retrieve"
                      [] outcome = "fail" -> "inner"
                      [] OTHER -> ExceptHandler
          /\ r_fault' = IF outcome = "raises" THEN "exception" ELSE r_fault
          /\ drained' = IF outcome = "ok" THEN drained + 1 ELSE drained
    /\ UNCHANGED <<r_cap, r_stop, r_lock, latest, heap, pending, gpc, gimg, gret>>
    /\ UNCHANGED r_start_error
    /\ UNCHANGED <<workerVars, managerVars, commandVars>>

\* ok, frame = cap.retrieve(): a decoded frame is a new array; a failed
\* retrieve breaks out of the drain loop only
RunRetrieve ==
    /\ rpc = "retrieve"
    /\ \E outcome \in {"ok", "fail", "raises"} :
          /\ r_cap = "released" => outcome = "fail"
          /\ IF outcome = "ok"
             THEN /\ FreeBufs # {}
                  /\ pending' = NewBuf
                  /\ \E px \in FrameContents :
                        heap' = Collect([heap EXCEPT ![NewBuf] = px],
                                        RefsOf(latest, NewBuf, gimg, gret))
                  /\ rpc' = "lock"
             ELSE /\ rpc' = IF outcome = "fail" THEN "inner" ELSE ExceptHandler
                  /\ UNCHANGED <<heap, pending>>
          /\ r_fault' = IF outcome = "raises" THEN "exception" ELSE r_fault
    /\ UNCHANGED <<r_cap, r_stop, r_lock, latest, drained, gpc, gimg, gret>>
    /\ UNCHANGED r_start_error
    /\ UNCHANGED <<workerVars, managerVars, commandVars>>

\* with self._lock: (entering)
RunLock ==
    /\ rpc = "lock"
    /\ r_lock = "free"
    /\ r_lock' = "writer"
    /\ rpc' = "publish"
    /\ UNCHANGED <<r_cap, r_stop, latest, heap, pending, drained, gpc, gimg, gret>>
    /\ UNCHANGED <<r_fault, r_start_error>>
    /\ UNCHANGED <<workerVars, managerVars, commandVars>>

\* self._latest = (ts_ms, frame), and the lock is released
RunPublish ==
    /\ rpc = "publish"
    /\ latest' = Some(pending)
    /\ heap' = Collect(heap, RefsOf(Some(pending), pending, gimg, gret))
    /\ r_lock' = WithLockExit
    /\ rpc' = "sleep"
    /\ UNCHANGED <<r_cap, r_stop, pending, drained, gpc, gimg, gret>>
    /\ UNCHANGED <<r_fault, r_start_error>>
    /\ UNCHANGED <<workerVars, managerVars, commandVars>>

\* time.sleep(self.read_sleep_ms / 1000.0), then the drain loop's test
RunSleep ==
    /\ rpc = "sleep"
    /\ rpc' = "drain"
    /\ UNCHANGED <<r_cap, r_stop, r_lock, latest, heap, pending, drained,
                   gpc, gimg, gret>>
    /\ UNCHANGED <<r_fault, r_start_error>>
    /\ UNCHANGED <<workerVars, managerVars, commandVars>>

\* finally: release the handle, self._cap = None, time.sleep(0.5)
RunFinally ==
    /\ rpc = "finally"
    /\ r_cap' = "None"
    /\ rpc' = "outer"
    /\ UNCHANGED <<r_stop, r_lock, latest, heap, pending, drained, gpc, gimg,
                   gret>>
    /\ UNCHANGED <<r_fault, r_start_error>>
    /\ UNCHANGED <<workerVars, managerVars, commandVars>>

\* get_latest: with self._lock: (entering)
GetLatestLock(r) ==
    /\ gpc[r] = "idle"
    /\ r_lock = "free"
    /\ r_lock' = r
    /\ gpc' = [gpc EXCEPT ![r] = "locked"]
    /\ UNCHANGED <<rpc, r_cap, r_stop, latest, heap, pending, drained, gimg,
                   gret>>
    /\ UNCHANGED <<r_fault, r_start_error>>
    /\ UNCHANGED <<workerVars, managerVars, commandVars>>

\* get_latest: return None when self._latest is None, else _, img =
\* self._latest; the lock is released
GetLatestRead(r) ==
    /\ gpc[r] = "locked"
    /\ r_lock' = "free"
    /\ IF latest = None
       THEN /\ gret' = [gret EXCEPT ![r] = 0]
            /\ heap' = Collect(heap, RefsOf(latest, pending, gimg,
                                            [gret EXCEPT ![r] = 0]))
            /\ gpc' = [gpc EXCEPT ![r] = "idle"]
            /\ UNCHANGED gimg
       ELSE /\ gimg' = [gimg EXCEPT ![r] = Val(latest)]
            /\ gpc' = [gpc EXCEPT ![r] = "copy"]
            /\ UNCHANGED <<gret, heap>>
    /\ UNCHANGED <<rpc, r_cap, r_stop, latest, pending, drained>>
    /\ UNCHANGED <<r_fault, r_start_error>>
    /\ UNCHANGED <<workerVars, managerVars, commandVars>>

\* mutant: get_latest returns img itself
ReturnedBuffer_NoCopy(img, fresh) ==
    img

\* return img.copy(): the caller gets the new array
ReturnedBuffer(img, fresh) ==
    fresh

\* get_latest: return img.copy(), outside the lock
GetLatestCopy(r) ==
    /\ gpc[r] = "copy"
    /\ FreeBufs # {}
    /\ LET held == [gret EXCEPT ![r] = ReturnedBuffer(gimg[r], NewBuf)]
           imgs == [gimg EXCEPT ![r] = 0]
       IN  /\ gret' = held
           /\ gimg' = imgs
           /\ heap' = Collect([heap EXCEPT ![NewBuf] = heap[gimg[r]]],
                              RefsOf(latest, pending, imgs, held))
    /\ gpc' = [gpc EXCEPT ![r] = "idle"]
    /\ UNCHANGED <<rpc, r_cap, r_stop, r_lock, latest, pending, drained>>
    /\ UNCHANGED <<r_fault, r_start_error>>
    /\ UNCHANGED <<workerVars, managerVars, commandVars>>

\* a caller writes into the frame get_latest returned to it
ReaderMutates(r) ==
    /\ gret[r] # 0
    /\ heap[gret[r]] # Scribbled
    /\ heap' = [heap EXCEPT ![gret[r]] = Scribbled]
    /\ UNCHANGED <<rpc, r_cap, r_stop, r_lock, latest, pending, drained, gpc,
                   gimg, gret>>
    /\ UNCHANGED <<r_fault, r_start_error>>
    /\ UNCHANGED <<workerVars, managerVars, commandVars>>

ReaderNext ==
    \/ ReaderStart
    \/ ReaderStop
    \/ RunOuterTest
    \/ RunOpen
    \/ RunInnerTest
    \/ RunDrainTest
    \/ RunGrab
    \/ RunRetrieve
    \/ RunLock
    \/ RunPublish
    \/ RunSleep
    \/ RunFinally
    \/ \E r \in Readers : GetLatestLock(r)
    \/ \E r \in Readers : GetLatestRead(r)
    \/ \E r \in Readers : GetLatestCopy(r)
    \/ \E r \in Readers : ReaderMutates(r)

\* one step of the acquisition thread
RunStep ==
    \/ RunOuterTest
    \/ RunOpen
    \/ RunInnerTest
    \/ RunDrainTest
    \/ RunGrab
    \/ RunRetrieve
    \/ RunLock
    \/ RunPublish
    \/ RunSleep
    \/ RunFinally

\* Scheduling: a started thread that can take a step takes one (transport
\* calls and sleeps return); a thread waiting for self._lock gets it, the
\* readers holding it only for the two statements of get_latest's with block;
\* a reader inside the with block leaves it.
ReaderFairness ==
    /\ WF_vars(RunStep)
    /\ SF_vars(RunLock)
    /\ \A r \in Readers : WF_vars(GetLatestRead(r))

\* the reader with callers that only read the frames they are handed
ReaderLiveNext ==
    \/ ReaderStart
    \/ ReaderStop
    \/ RunStep
    \/ \E r \in Readers : GetLatestLock(r)
    \/ \E r \in Readers : GetLatestRead(r)
    \/ \E r \in Readers : GetLatestCopy(r)

\* ------------------------------------------------------------------------
\* Claims about the frame source (SpecReader)
\* ------------------------------------------------------------------------

\* what else refers to buffers, seen from reader r: the published frame, the
\* acquisition thread's local frame, every get_latest call's local img and the
\* frames the other readers hold
OthersBufs(r) ==
    LatestBuf \cup {pending} \cup {gimg[q] : q \in Readers}
        \cup {gret[q] : q \in Readers \ {r}}

\* C8: get_latest hands the caller a private copy. The buffer a reader holds
\* is referred to by nobody else; the published frame and a frame being copied
\* never carry a reader's writes, so a later get_latest is unaffected by them;
\* and a held buffer changes only by its holder's own write.
C8_GetLatestReturnsPrivateCopy ==
    /\ [](\A r \in Readers : gret[r] # 0 => gret[r] \notin OthersBufs(r))
    /\ [](\A b \in LatestBuf \cup ({gimg[q] : q \in Readers} \ {0}) :
             heap[b] # Scribbled)
    /\ [][\A r \in Readers :
             (gret[r] # 0 /\ gret'[r] = gret[r] /\ heap'[gret[r]] # heap[gret[r]])
                => heap'[gret[r]] = Scribbled]_vars

\* C8 witness: one reader has written into the frame it was handed, and the
\* other reader, calling get_latest while the acquisition thread runs, holds a
\* different buffer with the published frame's content.
C8_Witness ==
    /\ IsSome(latest)
    /\ gret["r1"] # 0
    /\ heap[gret["r1"]] = Scribbled
    /\ gret["r2"] # 0
    /\ gret["r2"] # gret["r1"]
    /\ heap[gret["r2"]] = heap[Val(latest)]
    /\ rpc = "retrieve"

\* C13 as stated: when a grab or a retrieve on the open handle fails, the
\* acquisition loop goes to release the handle (and then backs off and opens
\* a new connection); it does not go back to reading from the same handle.
C13_ReadFailureReleasesHandle ==
    [][(rpc \in {"grab", "retrieve"} /\ rpc' # rpc /\ rpc' \notin {"retrieve", "lock"})
          => rpc' = "finally"]_vars

C15_SentinelDuringReconnect ==
    [][\A r \in Readers :
          (gpc[r] = "locked" /\ gpc'[r] # "locked" /\ r_cap = "None" /\ ~r_stop)
             => (gpc'[r] = "idle" /\ gret'[r] = 0)]_vars

\* C16: the acquisition thread holds the mutex of the frame slot only at the
\* assignment of the slot, never at a grab, a retrieve, a sleep, an open or in
\* the finally block, and its very next step assigns the slot and releases
\* the mutex; the mutex is otherwise held only by a reader inside get_latest's
\* with block.
C16_WriterHoldsMutexOnlyToAssign ==
    /\ [](r_lock = "writer" <=> rpc = "publish")
    /\ [](\A r \in Readers : r_lock = r <=> gpc[r] = "locked")
    /\ [][(r_lock = "writer" /\ rpc' # rpc)
             => (r_lock' = "free" /\ latest' = Some(pending))]_vars

\* C16 witness: a reader is inside get_latest's with block, holding the mutex,
\* while the acquisition thread is in the transport's grab, and the other
\* reader waits for nothing either: it already copies the frame it read.
C16_Witness ==
    /\ r_lock = "r1"
    /\ gpc["r1"] = "locked"
    /\ rpc = "grab"
    /\ r_cap = "opened"
    /\ IsSome(latest)
    /\ gpc["r2"] = "copy"

\* C21 as stated: start() never raises, whatever the state of the reader it
\* is called in.
C21_StartNeverRaises ==
    ~r_start_error

\* C22: stop() releases the handle there is; once stop() was called on a
\* started reader the acquisition thread eventually ends; when it has ended
\* no handle is left, and nothing is published to the slot afterwards.
C22_StopEndsLoopAndReleases ==
    /\ [][(r_stop' /\ ~r_stop) => r_cap' \in {"None", "released"}]_vars
    /\ (r_stop /\ rpc # "not_started") ~> (rpc = "exited")
    /\ [](rpc = "exited" => (r_stop /\ r_cap = "None" /\ r_lock # "writer"))
    /\ [][rpc = "exited" => (rpc' = "exited" /\ latest' = latest)]_vars

\* C22 witness: stop() was called while frames were being published; the
\* thread has ended, the handle is gone and the slot still holds the last
\* frame, which a reader is copying.
C22_Witness ==
    /\ r_stop
    /\ rpc = "exited"
    /\ r_cap = "None"
    /\ IsSome(latest)
    /\ gpc["r1"] = "copy"

\* ------------------------------------------------------------------------
\* ServerCommand.ExecuteCommand on a request of several directives
\* ------------------------------------------------------------------------
\* longest list of directives in one request
MaxBatch == 2

\* the fields validate_cmd tests on every directive
RequiredFields == {"command", "name", "input_url", "call_back_url",
                   "frame_orientation", "rotation", "processor_type"}
\* which fields a directive carries (an unset or zero field is falsy)
FieldSets == {RequiredFields, RequiredFields \ {"name"},
              RequiredFields \ {"processor_type"}}
Commands == {"START", "STOP"}
Directives == [command : Commands, name : Names, fields : FieldSets]
Requests == UNION {[1..k -> Directives] : k \in 0..MaxBatch}
\* the handler of the request followed directive by directive
Handler == "h1"

CommandInit ==
    /\ req = [c \in Callers |-> <<>>]
    /\ request = [c \in Callers |-> None]
    /\ resp = [c \in Callers |-> "none"]

\* history: what is recorded of a received request
Received(r) ==
    [len |-> Len(r),
     bad |-> {i \in 1..Len(r) : ~(RequiredFields \subseteq r[i].fields)}]

\* the tests validate_cmd makes on one directive
DirectiveValid(d) ==
    RequiredFields \subseteq d.fields

\* a validation that looks at the first directive only
validate_cmd_FirstOnly(r) ==
    Len(r) > 0 /\ DirectiveValid(r[1])

\* validate_cmd: False for an empty list and at the first directive with a
\* falsy field
validate_cmd(r) ==
    Len(r) > 0 /\ \A i \in 1..Len(r) : DirectiveValid(r[i])

\* ExecuteCommand up to the loop: validate_cmd, and the response of a
\* rejected request
CmdReceive(c, r) ==
    /\ cpc[c] = "idle"
    /\ req[c] = <<>>
    /\ resp[c] # "pending"
    /\ request' = [request EXCEPT ![c] = Some(Received(r))]
    /\ IF validate_cmd(r)
       THEN /\ req' = [req EXCEPT ![c] = r]
            /\ resp' = [resp EXCEPT ![c] = "pending"]
       ELSE /\ resp' = [resp EXCEPT ![c] = "rejected"]
            /\ UNCHANGED req
    /\ UNCHANGED <<managerVars, workerVars, readerVars>>

\* the loop takes up a START directive: self.dm.add(dp)
CmdStartAdd(c) ==
    /\ req[c] # <<>>
    /\ Head(req[c]).command = "START"
    /\ Add(c, "grpc", Head(req[c]).name, "grpc_start")
    /\ req' = [req EXCEPT ![c] = Tail(req[c])]
    /\ UNCHANGED <<request, resp>>

\* a START directive after add returned True: self.dm.start(name)
CmdStartStart(c) ==
    /\ resp[c] = "pending"
    /\ Start(c, "grpc", cname[c], "grpc_start")
    /\ IF ev'.result = "RuntimeError"
       THEN /\ req' = [req EXCEPT ![c] = <<>>]
            /\ resp' = [resp EXCEPT ![c] = "exception"]
       ELSE UNCHANGED <<req, resp>>
    /\ UNCHANGED request

\* the loop takes up a STOP directive: self.dm.stop(name) up to the join
CmdStopStop(c) ==
    /\ req[c] # <<>>
    /\ Head(req[c]).command = "STOP"
    /\ StopBegin(c, "grpc", Head(req[c]).name, "grpc_join")
    /\ req' = [req EXCEPT ![c] = Tail(req[c])]
    /\ UNCHANGED <<request, resp>>

\* a STOP directive: the join of self.dm.stop(name); an exception of join
\* leaves ExecuteCommand
CmdStopJoin(c) ==
    /\ resp[c] = "pending"
    /\ StopJoin(c, "grpc", "grpc_join", "grpc_remove")
    /\ IF ev'.result = "RuntimeError"
       THEN /\ req' = [req EXCEPT ![c] = <<>>]
            /\ resp' = [resp EXCEPT ![c] = "exception"]
       ELSE UNCHANGED <<req, resp>>
    /\ UNCHANGED request

\* a STOP directive after stop returned True: self.dm.remove(name)
CmdStopRemove(c) ==
    /\ resp[c] = "pending"
    /\ Remove(c, "grpc", cname[c], "grpc_remove")
    /\ UNCHANGED commandVars

\* return pb2.ExecuteCommandResponse(success=success, message=message) after
\* the loop
CmdReturn(c) ==
    /\ cpc[c] = "idle"
    /\ req[c] = <<>>
    /\ resp[c] = "pending"
    /\ resp' = [resp EXCEPT ![c] = "success"]
    /\ UNCHANGED <<req, request>>
    /\ UNCHANGED <<managerVars, workerVars, readerVars>>

CommandNext ==
    \/ \E r \in Requests : CmdReceive(Handler, r)
    \/ CmdStartAdd(Handler)
    \/ CmdStartStart(Handler)
    \/ CmdStopStop(Handler)
    \/ CmdStopJoin(Handler)
    \/ CmdStopRemove(Handler)
    \/ CmdReturn(Handler)
    \/ \E w \in Workers : ThreadExits(w)
    \/ \E w \in Workers : ThreadFails(w)

\* requests of at most one directive
ShortRequests == {r \in Requests : Len(r) <= 1}

\* the server's pool: several handlers of ExecuteCommand at once, each
\* taking short requests
CommandPoolNext ==
    \/ \E c \in Callers, r \in ShortRequests : CmdReceive(c, r)
    \/ \E c \in Callers : CmdStartAdd(c)
    \/ \E c \in Callers : CmdStartStart(c)
    \/ \E c \in Callers : CmdStopStop(c)
    \/ \E c \in Callers : CmdStopJoin(c)
    \/ \E c \in Callers : CmdStopRemove(c)
    \/ \E c \in Callers : CmdReturn(c)
    \/ \E w \in Workers : ThreadExits(w)
    \/ \E w \in Workers : ThreadFails(w)

\* ------------------------------------------------------------------------
\* Claims about the command surface (SpecCommand)
\* ------------------------------------------------------------------------

\* C11: a request with no directives, or in which any directive misses a
\* required field, is answered success=false and none of its directives is
\* executed: while it is the handler's latest request no manager call is made,
\* nothing is added, started, signalled or removed, also not by valid
\* directives that precede the invalid one.
C11_InvalidRequestExecutesNothing ==
    [][(/\ IsSome(request'[Handler])
        /\ \/ Val(request'[Handler]).len = 0
           \/ Val(request'[Handler]).bad # {})
          => /\ resp'[Handler] = "rejected"
             /\ req'[Handler] = <<>>
             /\ ev' = ev \/ ev' = NoEvent
             /\ UNCHANGED <<detections, threads, created, worker_stop, dm_lock,
                            cpc>>
             /\ \A w \in Workers :
                   thread_state'[w] # thread_state[w] => thread_state'[w] = "dead"]_vars

\* C11 witness: a request whose first directive is complete and whose second
\* directive misses a field has been rejected, while a channel added by an
\* earlier request is running and another name is free.
C11_Witness ==
    /\ resp[Handler] = "rejected"
    /\ IsSome(request[Handler])
    /\ Val(request[Handler]).len = 2
    /\ Val(request[Handler]).bad = {2}
    /\ \E n \in Names : detections[n] # 0 /\ thread_state[threads[n]] = "alive"
    /\ \E n \in Names : detections[n] = 0

\* C29 as stated: every request that passed validation is answered, and
\* answered success=true: no handler of a validated request ends otherwise.
C29_ValidatedRequestReturnsSuccess ==
    [][\A c \in Callers :
          (resp[c] = "pending" /\ resp'[c] # "pending") => resp'[c] = "success"]_vars

\* ------------------------------------------------------------------------
\* The delivery block of start_worker, lines 347-363, taken by itself
\* ------------------------------------------------------------------------
\* In the worker as it is written the recognition call raises TypeError
\* (process_frame_outcomes), so the block never runs with ocr_triggered set.
\* Here the block is given every input the code before it is written to hand
\* over: lines 272-345 of a cycle are reduced to the two values they leave
\* for line 349, ocr_triggered and ocr_results. ocr_results differs from the
\* default only where ocr_triggered was set (lines 310-337).
DeliveryInputs ==
    {<<FALSE, DefaultOcrResults>>} \cup {<<TRUE, r>> : r \in RoiTexts}

\* one cycle from cap.read() to save_outputs, and sent = False
DeliveryCycle ==
    /\ wpc = "read"
    /\ \E in \in DeliveryInputs :
          /\ ocr_triggered' = in[1]
          /\ ocr_results' = in[2]
    /\ webhook_calls' = 0
    /\ sent' = FALSE
    /\ wpc' = "deliver"
    /\ UNCHANGED <<cap, running, stop_event, stable_target, cooldown_remaining,
                   last_roi_hash, last_text_signature, frame_shape, best, prev_best,
                   is_stable, roi, ocr_invoked, raised, run_len, last_failed>>
    /\ UNCHANGED <<managerVars, readerVars, commandVars>>

DeliveryNext ==
    \/ WorkerOpen
    \/ WorkerLoopTest
    \/ DeliveryCycle
    \/ WorkerDeliver
    \/ stop_worker

C30_SignatureOnlyOnSuccess ==
    /\ [][last_text_signature' # last_text_signature
             => /\ wpc = "deliver"
                /\ webhook_calls' = webhook_calls + 1
                /\ sent'
                /\ last_failed' = None
                /\ last_text_signature' = Some(text_sig(ocr_results))]_vars
    /\ [][(webhook_calls' = webhook_calls + 1 /\ last_failed' # None)
             => (~sent' /\ last_text_signature' = last_text_signature)]_vars
    /\ [][(webhook_calls' = webhook_calls + 1 /\ last_failed' = None)
             => (sent' /\ last_text_signature' = Some(text_sig(ocr_results)))]_vars

\* C30 witness: after one result was delivered, the delivery of a result with
\* another signature has just failed; the recorded signature is still the
\* first one.
C30_Witness ==
    /\ wpc = "loop"
    /\ webhook_calls = 1
    /\ ~sent
    /\ last_failed = Some(text_sig(ocr_results))
    /\ last_text_signature # None
    /\ last_text_signature # last_failed

\* ------------------------------------------------------------------------
\* Specifications
\* ------------------------------------------------------------------------
Init == WorkerInit /\ ManagerInit /\ ReaderInit /\ CommandInit

SpecWorker == Init /\ [][WorkerNext]_vars

SpecWorkerLive == Init /\ [][WorkerNext]_vars /\ WorkerFairness

SpecManager == Init /\ [][ManagerNext]_vars

SpecReader == Init /\ [][ReaderNext]_vars

SpecReaderLive == Init /\ [][ReaderLiveNext]_vars /\ ReaderFairness

SpecCommand == Init /\ [][CommandNext]_vars

SpecCommandPool == Init /\ [][CommandPoolNext]_vars

SpecDelivery == Init /\ [][DeliveryNext]_vars

SpecGrpc == Init /\ [][GrpcNext]_vars

====
